---- MODULE Spec2Model ----
(***************************************************************************)
(* srpk: a password-protected secret store.                                *)
(*                                                                         *)
(* Two layers are modelled.                                                *)
(*   - crypt.rs: password -> key, AES-256-GCM-SIV sealing of a byte blob,  *)
(*     base64 text framing (the codec that is in the source tree).         *)
(*   - vault.rs: the create / open / key_* / close lifecycle of one vault  *)
(*     file and of its decrypted working copy `path_temp`.                 *)
(*                                                                         *)
(* Bytes are the integers 0..255 and a blob is a sequence of bytes.  The   *)
(* library primitives (bcrypt, SHA-256, the AEAD, sqlite) are idealised:   *)
(* the hashes are collision free on the inputs the model draws, the AEAD   *)
(* opens a sealed blob exactly under the key and nonce that sealed it.     *)
(***************************************************************************)
EXTENDS Integers, Sequences, FiniteSets, TLC

VARIABLES
    file,       \* bytes of the vault file at `path`, or Absent
    file_temp,  \* bytes of the working copy at `path_temp`, or Absent
    vault,      \* per caller: the live Vault value, or NoVault
    last,       \* the operation that ran last, with its arguments and result
    crypt       \* the codec harness: inputs and results of encrypt / decrypt

vars == <<file, file_temp, vault, last, crypt>>

(***************************************************************************)
(* Results                                                                 *)
(***************************************************************************)
Ok(v) == [ok |-> TRUE, val |-> v, err |-> "none"]
Err(e) == [ok |-> FALSE, val |-> <<>>, err |-> e]

(***************************************************************************)
(* Bounds of the model                                                     *)
(***************************************************************************)
\* longest plaintext handed to the codec harness
MaxPlainLen == 2
\* most rows the record store is let to hold
MaxRows == 2

(***************************************************************************)
(* Byte helpers                                                            *)
(***************************************************************************)
RECURSIVE Sum(_, _)
Sum(s, j) == IF j > Len(s) THEN 0 ELSE s[j] + Sum(s, j + 1)

RECURSIVE WeightedSum(_, _)
WeightedSum(s, j) == IF j > Len(s) THEN 0 ELSE j * s[j] + WeightedSum(s, j + 1)

\* an ideal digest of s, n bytes long
Digest(s, n) ==
    LET a == (Sum(s, 1) + Len(s)) % 256
        b == WeightedSum(s, 1) % 256
    IN  [i \in 1..n |-> (a * i + b + i * i) % 256]

Repeat(b, n) == [i \in 1..n |-> b]

(***************************************************************************)
(* crypt.rs                                                                *)
(***************************************************************************)
NonceLen == 12
BcryptCost == 12
BcryptSaltLen == 16
Sha256Len == 32
TagLen == 16

\* the passwords of the tests: "password" and "asdf"
PASS == <<112, 97, 115, 115, 119, 111, 114, 100>>
BadPass == <<97, 115, 100, 102>>
Passwords == {PASS, BadPass}

\* OsRng.fill_bytes: the values the generator may return
Nonces == {Repeat(117, NonceLen), Repeat(7, NonceLen)}

generate_nonce == Nonces

\* bcrypt::hash_with_salt(pass, cost, salt).to_string(): the hash text is a
\* one-to-one image of (cost, salt, pass); the cost must be one bcrypt takes
bcrypt_hash_with_salt(pass, cost, salt) ==
    IF cost \in 4..31 THEN Ok(<<cost>> \o salt \o pass) ELSE Err("BCryptHash")

\* Sha256::new().update(text).finalize()
Sha256(text) == Digest(text, Sha256Len)

get_aes256gcmsiv_fixed_key(pass) ==
    Ok(Sha256(<<BcryptCost>> \o Repeat(0, BcryptSaltLen)))

get_aes256gcmsiv(pass) ==
    LET bcrypt == bcrypt_hash_with_salt(pass, BcryptCost, Repeat(0, BcryptSaltLen))
    IN  IF ~bcrypt.ok THEN Err("BCryptHash") ELSE Ok(Sha256(bcrypt.val))

\* Aes256GcmSiv: payload masked by a key-and-nonce stream, then the tag
AeadTag(key, nonce, pt) == Digest(key \o nonce \o pt, TagLen)

AeadEncrypt(key, nonce, pt) ==
    LET ks == Digest(key \o nonce, Len(pt))
    IN  [i \in 1..Len(pt) |-> (pt[i] + ks[i]) % 256] \o AeadTag(key, nonce, pt)

AeadDecrypt(key, nonce, ct) ==
    IF Len(ct) < TagLen THEN Err("aead")
    ELSE LET n == Len(ct) - TagLen
             ks == Digest(key \o nonce, n)
             pt == [i \in 1..n |-> (ct[i] - ks[i] + 256) % 256]
         IN  IF SubSeq(ct, n + 1, n + TagLen) = AeadTag(key, nonce, pt)
             THEN Ok(pt) ELSE Err("aead")

\* general_purpose::STANDARD_NO_PAD: a text is a sequence of alphabet indexes
\* 0..63; PadChar stands for '=' and any other character outside the alphabet
PadChar == 64

Base64Encode(bytes) ==
    LET n == Len(bytes)
        rem == n % 3
        outLen == 4 * (n \div 3) + (IF rem = 0 THEN 0 ELSE rem + 1)
        At(k) == IF k <= n THEN bytes[k] ELSE 0
        Sextet(i) ==
            LET g == (i - 1) \div 4
                p == (i - 1) % 4
                b1 == At(3 * g + 1)
                b2 == At(3 * g + 2)
                b3 == At(3 * g + 3)
            IN  CASE p = 0 -> b1 \div 4
                  [] p = 1 -> (b1 % 4) * 16 + (b2 \div 16)
                  [] p = 2 -> (b2 % 16) * 4 + (b3 \div 64)
                  [] p = 3 -> b3 % 64
    IN  [i \in 1..outLen |-> Sextet(i)]

\* STANDARD (padded) encoding: what Base64Encode would be with the wrong engine
Base64EncodePadded(bytes) ==
    LET body == Base64Encode(bytes)
    IN  body \o Repeat(PadChar, (4 - (Len(body) % 4)) % 4)

Base64Decode(text) ==
    LET n == Len(text)
        rem == n % 4
        outLen == 3 * (n \div 4) + (IF rem = 0 THEN 0 ELSE rem - 1)
        At(k) == IF k <= n THEN text[k] ELSE 0
        Octet(j) ==
            LET g == (j - 1) \div 3
                q == (j - 1) % 3
                c1 == At(4 * g + 1)
                c2 == At(4 * g + 2)
                c3 == At(4 * g + 3)
                c4 == At(4 * g + 4)
            IN  CASE q = 0 -> c1 * 4 + (c2 \div 16)
                  [] q = 1 -> (c2 % 16) * 16 + (c3 \div 4)
                  [] q = 2 -> (c3 % 4) * 64 + c4
        badSymbol == \E k \in 1..n : text[k] \notin 0..63
        badLength == rem = 1
        badTrailing == \/ rem = 2 /\ text[n] % 16 # 0
                       \/ rem = 3 /\ text[n] % 4 # 0
    IN  IF badSymbol \/ badLength \/ badTrailing
        THEN Err("Base64Decode")
        ELSE Ok([j \in 1..outLen |-> Octet(j)])

aes256_encrypt_with_nonce_padded(plaintext, pass, nonce_u8) ==
    LET cipher == get_aes256gcmsiv(pass)
    IN  IF ~cipher.ok THEN cipher
        ELSE Ok(Base64EncodePadded(nonce_u8 \o AeadEncrypt(cipher.val, nonce_u8, plaintext)))

aes256_encrypt_with_nonce(plaintext, pass, nonce_u8) ==
    LET cipher == get_aes256gcmsiv(pass)
    IN  IF ~cipher.ok THEN cipher
        ELSE Ok(Base64Encode(nonce_u8 \o AeadEncrypt(cipher.val, nonce_u8, plaintext)))

\* aes256_encrypt draws the nonce: the set of texts it may return
aes256_encrypt(plaintext, pass) ==
    {aes256_encrypt_with_nonce(plaintext, pass, nonce_u8) : nonce_u8 \in generate_nonce}

aes256_decrypt(ciphertext, pass) ==
    LET full_u8 == Base64Decode(ciphertext)
    IN  IF ~full_u8.ok THEN Err("Base64Decode")
        ELSE IF Len(full_u8.val) < NonceLen THEN Err("panic")
        ELSE LET nonce_u8 == SubSeq(full_u8.val, 1, NonceLen)
                 ciphertext_u8 == SubSeq(full_u8.val, NonceLen + 1, Len(full_u8.val))
                 cipher == get_aes256gcmsiv(pass)
             IN  IF ~cipher.ok THEN cipher
                 ELSE LET v == AeadDecrypt(cipher.val, nonce_u8, ciphertext_u8)
                      IN  IF v.ok THEN Ok(v.val) ELSE Err("AES256Decrypt")

(***************************************************************************)
(* The codec harness: encrypt a plaintext, then decrypt the text           *)
(***************************************************************************)
PlainBytes == {0, 112, 255}

RECURSIVE SeqsUpTo(_, _)
SeqsUpTo(S, n) ==
    IF n = 0 THEN {<<>>}
    ELSE LET shorter == SeqsUpTo(S, n - 1)
         IN  shorter \cup {Append(s, b) : s \in {t \in shorter : Len(t) = n - 1}, b \in S}

Plaintexts == SeqsUpTo(PlainBytes, MaxPlainLen)

CryptIdle ==
    [pc |-> "idle", plaintext |-> <<>>, pass |-> <<>>, enc |-> Err("none"),
     dpass |-> <<>>, dec |-> Err("none")]

CryptEncrypt ==
    /\ crypt.pc = "start"
    /\ \E enc \in aes256_encrypt(crypt.plaintext, crypt.pass) :
           crypt' = [crypt EXCEPT !.pc = "encrypted", !.enc = enc]
    /\ UNCHANGED <<file, file_temp, vault, last>>

CryptDecrypt ==
    /\ crypt.pc = "encrypted"
    /\ crypt.enc.ok
    /\ \E pass \in Passwords :
           crypt' = [crypt EXCEPT !.pc = "decrypted", !.dpass = pass,
                                  !.dec = aes256_decrypt(crypt.enc.val, pass)]
    /\ UNCHANGED <<file, file_temp, vault, last>>


(***************************************************************************)
(* The codec harness, second part: two calls of aes256_encrypt on the same *)
(* plaintext and password, then aes256_decrypt of a text that is the first *)
(* result, a damaged copy of it, or a prefix of it.                        *)
(***************************************************************************)
\* the salt get_aes256gcmsiv gives bcrypt: the array [0u8; 16]
FixedSalt == Repeat(0, BcryptSaltLen)

\* one call of aes256_encrypt, with the salt it hashes under and the nonce it
\* drew beside the text it returns
aes256_encrypt_call(plaintext, pass) ==
    {[salt |-> FixedSalt, nonce |-> nonce_u8,
      out |-> aes256_encrypt_with_nonce(plaintext, pass, nonce_u8)]
        : nonce_u8 \in generate_nonce}

\* what a damaged character of the text may have become: the next character
\* of the alphabet, or a character outside it
Damaged(sym) == {(sym + 1) % 64, PadChar}

NoCall == [salt |-> <<>>, nonce |-> <<>>, out |-> Err("none")]

SealIdle ==
    [pc |-> "start", plaintext |-> <<>>, pass |-> <<>>, first |-> NoCall,
     second |-> NoCall, text |-> <<>>, dpass |-> <<>>, dec |-> Err("none")]

CryptSealTwice ==
    /\ crypt.pc = "start"
    /\ \E first \in aes256_encrypt_call(crypt.plaintext, crypt.pass),
          second \in aes256_encrypt_call(crypt.plaintext, crypt.pass) :
           crypt' = [crypt EXCEPT !.pc = "sealed", !.first = first,
                                  !.second = second]
    /\ UNCHANGED <<file, file_temp, vault, last>>

CryptPresent ==
    /\ crypt.pc = "sealed"
    /\ crypt.first.out.ok
    /\ \E text \in {crypt.first.out.val, crypt.second.out.val} :
           crypt' = [crypt EXCEPT !.pc = "presented", !.text = text]
    /\ UNCHANGED <<file, file_temp, vault, last>>

CryptDamage ==
    /\ crypt.pc = "sealed"
    /\ crypt.first.out.ok
    /\ \E i \in 1..Len(crypt.first.out.val) :
       \E sym \in Damaged(crypt.first.out.val[i]) :
           crypt' = [crypt EXCEPT !.pc = "presented",
                                  !.text = [crypt.first.out.val EXCEPT ![i] = sym]]
    /\ UNCHANGED <<file, file_temp, vault, last>>

CryptTruncate ==
    /\ crypt.pc = "sealed"
    /\ crypt.first.out.ok
    /\ \E n \in 0..(Len(crypt.first.out.val) - 1) :
           crypt' = [crypt EXCEPT !.pc = "presented",
                                  !.text = SubSeq(crypt.first.out.val, 1, n)]
    /\ UNCHANGED <<file, file_temp, vault, last>>

CryptOpen ==
    /\ crypt.pc = "presented"
    /\ \E pass \in Passwords :
           crypt' = [crypt EXCEPT !.pc = "opened", !.dpass = pass,
                                  !.dec = aes256_decrypt(crypt.text, pass)]
    /\ UNCHANGED <<file, file_temp, vault, last>>

(***************************************************************************)
(* The envelope codec vault.rs calls: aes256_encrypt(bytes, pass, cost)    *)
(* and aes256_decrypt(bytes, pass) -> CryptValue {value, cost}.  Its code  *)
(* is not in the source tree (crypt.rs there is the earlier text codec),   *)
(* so it follows the envelope layout cost || salt || nonce || ciphertext.  *)
(***************************************************************************)
SaltLen == 16
EnvelopeHeaderLen == 29
MinCost == 5
MaxCost == 31

\* the values the generator may return for a salt
Salts == {Repeat(1, SaltLen), Repeat(2, SaltLen)}

derive_key(password, cost, salt) ==
    IF cost \in MinCost..MaxCost
    THEN Ok(Sha256(<<cost>> \o salt \o password))
    ELSE Err("BCryptHash")

encrypt_with(plaintext, password, cost, salt, nonce) ==
    LET key == derive_key(password, cost, salt)
    IN  IF ~key.ok THEN key
        ELSE Ok(<<cost>> \o salt \o nonce \o AeadEncrypt(key.val, nonce, plaintext))

\* encrypt draws salt and nonce: the set of envelopes it may return
encrypt(plaintext, password, cost) ==
    {encrypt_with(plaintext, password, cost, salt, nonce) :
        salt \in Salts, nonce \in generate_nonce}

decrypt(envelope, password) ==
    IF Len(envelope) < EnvelopeHeaderLen THEN Err("MalformedEnvelope")
    ELSE LET cost == envelope[1]
             salt == SubSeq(envelope, 2, 1 + SaltLen)
             nonce == SubSeq(envelope, 2 + SaltLen, EnvelopeHeaderLen)
             ct == SubSeq(envelope, EnvelopeHeaderLen + 1, Len(envelope))
             key == derive_key(password, cost, salt)
         IN  IF ~key.ok THEN key
             ELSE LET v == AeadDecrypt(key.val, nonce, ct)
                  IN  IF v.ok THEN Ok([value |-> v.val, cost |-> cost])
                      ELSE Err("AES256Decrypt")

(***************************************************************************)
(* The file system and the record store                                    *)
(***************************************************************************)
\* no file at the path
Absent == <<-1>>

\* std::fs::write that fails: the file could not be opened (old content
\* stays) or was truncated and only partly written
FailedWrite(old, new) ==
    {old, <<>>} \cup (IF Len(new) > 0 THEN {SubSeq(new, 1, Len(new) - 1)} ELSE {})

\* A database file: empty (no table yet), or the header and the rows of
\* table srpk (key TEXT, value TEXT), two bytes a row, in insertion order.
DbMagic == <<83, 81, 76>>
Keys == {107, 108}
Values == {97, 98}

HasTable(bytes) ==
    /\ bytes # Absent
    /\ Len(bytes) >= Len(DbMagic)
    /\ SubSeq(bytes, 1, Len(DbMagic)) = DbMagic
    /\ (Len(bytes) - Len(DbMagic)) % 2 = 0

Rows(bytes) ==
    [i \in 1..((Len(bytes) - Len(DbMagic)) \div 2) |->
        <<bytes[Len(DbMagic) + 2 * i - 1], bytes[Len(DbMagic) + 2 * i]>>]

Serialize(rows) ==
    DbMagic \o [i \in 1..(2 * Len(rows)) |-> rows[(i + 1) \div 2][((i - 1) % 2) + 1]]

\* "CREATE TABLE srpk (key TEXT, value TEXT);" on the file sqlite::open gave
SqlCreateTable(bytes) ==
    IF bytes = <<>> THEN Ok(Serialize(<<>>)) ELSE Err("Sqlite")

RECURSIVE FirstValue(_, _, _)
FirstValue(rows, key, i) ==
    IF i > Len(rows) THEN <<>>
    ELSE IF rows[i][1] = key THEN <<rows[i][2]>>
    ELSE FirstValue(rows, key, i + 1)

\* PASSWORD_GET_SQL, first row: <<value>> for Some(value), <<>> for None
SqlSelectValue(bytes, key) == FirstValue(Rows(bytes), key, 1)

\* PASSWORD_NEW_SQL
SqlInsert(bytes, key, value) == Serialize(Append(Rows(bytes), <<key, value>>))

\* PASSWORD_DEL_SQL
SqlDelete(bytes, key) ==
    Serialize(SelectSeq(Rows(bytes), LAMBDA r : r[1] # key))

\* PASSWORD_LS_SQL
SqlSelectKeys(bytes) == [i \in 1..Len(Rows(bytes)) |-> Rows(bytes)[i][1]]


(***************************************************************************)
(* vault.rs: the operations as functions of the files they read, each      *)
(* giving the set of outcomes it may end in.  `fault` names the fallible   *)
(* step the environment makes fail ("none": every step succeeds).          *)
(***************************************************************************)
Callers == {1, 2}

NoVault == [live |-> FALSE, pass |-> <<>>, cost |-> 0, before |-> <<>>]

\* Vault::create(path, pass, cost): the file left at path and the result
create(f, pass, cost, fault) ==
    LET opened == IF f = Absent THEN <<>> ELSE f
        made == SqlCreateTable(opened)
    IN  IF fault = "sqlite_open" THEN {[file |-> f, res |-> Err("Sqlite")]}
        ELSE IF ~made.ok THEN {[file |-> opened, res |-> Err("Sqlite")]}
        ELSE IF fault = "read" THEN {[file |-> made.val, res |-> Err("Io")]}
        ELSE UNION {
            IF ~db_enc.ok THEN {[file |-> made.val, res |-> Err(db_enc.err)]}
            ELSE IF fault = "write"
            THEN {[file |-> w, res |-> Err("Io")] : w \in FailedWrite(made.val, db_enc.val)}
            ELSE {[file |-> db_enc.val, res |-> Ok(<<>>)]}
            : db_enc \in encrypt(made.val, pass, cost)}

\* open that takes a failed decrypt for an empty store instead of returning it
open_default_on_error(f, ft, pass, fault) ==
    IF f = Absent
    THEN {[file_temp |-> ft, vault |-> NoVault, res |-> Err("Io")]}
    ELSE LET db_raw == decrypt(f, pass)
             value == IF db_raw.ok THEN db_raw.val.value ELSE <<>>
             cost == IF db_raw.ok THEN db_raw.val.cost ELSE 0
         IN  {[file_temp |-> value,
               vault |-> [live |-> TRUE, pass |-> pass, cost |-> cost, before |-> f],
               res |-> Ok(<<>>)]}

\* open that takes a working copy it finds at path_temp for its own
open_keeps_working_copy(f, ft, pass, fault) ==
    IF f = Absent
    THEN {[file_temp |-> ft, vault |-> NoVault, res |-> Err("Io")]}
    ELSE LET db_raw == decrypt(f, pass)
         IN  IF ~db_raw.ok
             THEN {[file_temp |-> ft, vault |-> NoVault, res |-> Err(db_raw.err)]}
             ELSE {[file_temp |-> IF ft = Absent THEN db_raw.val.value ELSE ft,
                    vault |-> [live |-> TRUE, pass |-> pass,
                               cost |-> db_raw.val.cost, before |-> f],
                    res |-> Ok(<<>>)]}

\* open that gives the session the default cost, not the envelope's
open_default_cost(f, ft, pass, fault) ==
    IF f = Absent
    THEN {[file_temp |-> ft, vault |-> NoVault, res |-> Err("Io")]}
    ELSE LET db_raw == decrypt(f, pass)
         IN  IF ~db_raw.ok
             THEN {[file_temp |-> ft, vault |-> NoVault, res |-> Err(db_raw.err)]}
             ELSE {[file_temp |-> db_raw.val.value,
                    vault |-> [live |-> TRUE, pass |-> pass,
                               cost |-> BcryptCost, before |-> f],
                    res |-> Ok(<<>>)]}

\* Vault::open(path, pass): the working copy left at path_temp, the Vault
\* returned (NoVault on an error) and the result
open(f, ft, pass, fault) ==
    IF fault = "read" \/ f = Absent
    THEN {[file_temp |-> ft, vault |-> NoVault, res |-> Err("Io")]}
    ELSE LET db_raw == decrypt(f, pass)
         IN  IF ~db_raw.ok
             THEN {[file_temp |-> ft, vault |-> NoVault, res |-> Err(db_raw.err)]}
             ELSE IF fault = "write"
             THEN {[file_temp |-> w, vault |-> NoVault, res |-> Err("Io")]
                      : w \in FailedWrite(ft, db_raw.val.value)}
             ELSE IF fault = "sqlite_open"
             THEN {[file_temp |-> db_raw.val.value, vault |-> NoVault,
                    res |-> Err("Sqlite")]}
             ELSE {[file_temp |-> db_raw.val.value,
                    vault |-> [live |-> TRUE, pass |-> pass,
                               cost |-> db_raw.val.cost, before |-> f],
                    res |-> Ok(<<>>)]}

\* close that seals the working copy whatever `changed` says
close_always_seals(f, ft, self, changed, fault) ==
    {[file |-> db_enc.val, file_temp |-> Absent, res |-> Ok(<<>>)]
        : db_enc \in encrypt(ft, self.pass, self.cost)}

\* close that never seals the working copy
close_never_seals(f, ft, self, changed, fault) ==
    {[file |-> f, file_temp |-> Absent, res |-> Ok(<<>>)]}

\* close that removes the working copy only after sealing it
close_keeps_unchanged_temp(f, ft, self, changed, fault) ==
    IF ~changed THEN {[file |-> f, file_temp |-> ft, res |-> Ok(<<>>)]}
    ELSE {[file |-> db_enc.val, file_temp |-> Absent, res |-> Ok(<<>>)]
             : db_enc \in encrypt(ft, self.pass, self.cost)}

\* Vault::close(self, changed): the files left at path and path_temp and the
\* result; self is consumed whatever the result
close(f, ft, self, changed, fault) ==
    LET remove_file(f2) ==
            IF fault = "remove" \/ ft = Absent
            THEN [file |-> f2, file_temp |-> ft, res |-> Err("Io")]
            ELSE [file |-> f2, file_temp |-> Absent, res |-> Ok(<<>>)]
    IN  IF ~changed THEN {remove_file(f)}
        ELSE IF fault = "read" \/ ft = Absent
        THEN {[file |-> f, file_temp |-> ft, res |-> Err("Io")]}
        ELSE UNION {
            IF ~db_enc.ok THEN {[file |-> f, file_temp |-> ft, res |-> Err(db_enc.err)]}
            ELSE IF fault = "write"
            THEN {[file |-> w, file_temp |-> ft, res |-> Err("Io")]
                     : w \in FailedWrite(f, db_enc.val)}
            ELSE {remove_file(db_enc.val)}
            : db_enc \in encrypt(ft, self.pass, self.cost)}

\* Vault::key_get(key): Ok(<<value>>) is Some(value), Ok(<<>>) is None; a
\* failing statement.next() is not a Row and falls through to None
key_get(ft, key, fault) ==
    IF fault = "prepare" \/ ~HasTable(ft) THEN Err("Sqlite")
    ELSE IF fault = "step" THEN Ok(<<>>)
    ELSE Ok(SqlSelectValue(ft, key))

GetFault(fault) ==
    CASE fault = "get_prepare" -> "prepare"
      [] fault = "get_step" -> "step"
      [] OTHER -> "none"

\* key_new that binds the key to both parameters of the INSERT
key_new_binds_key_twice(ft, key, value, fault) ==
    LET found == key_get(ft, key, GetFault(fault))
    IN  IF ~found.ok THEN [file_temp |-> ft, res |-> found]
        ELSE IF found.val # <<>> THEN [file_temp |-> ft, res |-> Err("KeyDuplicate")]
        ELSE [file_temp |-> SqlInsert(ft, key, key), res |-> Ok(<<>>)]

\* key_new that replaces the value of a key already present
key_new_replaces(ft, key, value, fault) ==
    LET found == key_get(ft, key, GetFault(fault))
    IN  IF ~found.ok THEN [file_temp |-> ft, res |-> found]
        ELSE [file_temp |-> SqlInsert(SqlDelete(ft, key), key, value),
              res |-> Ok(<<>>)]

\* key_new without the lookup that guards the insert
key_new_unchecked(ft, key, value, fault) ==
    IF ~HasTable(ft) THEN [file_temp |-> ft, res |-> Err("Sqlite")]
    ELSE [file_temp |-> SqlInsert(ft, key, value), res |-> Ok(<<>>)]

\* Vault::key_new(key, pass): the working copy left and the result; a failing
\* statement.next() ends the loop and the call still returns Ok
key_new(ft, key, value, fault) ==
    LET found == key_get(ft, key, GetFault(fault))
    IN  IF ~found.ok THEN [file_temp |-> ft, res |-> found]
        ELSE IF found.val # <<>> THEN [file_temp |-> ft, res |-> Err("KeyDuplicate")]
        ELSE IF fault = "prepare" THEN [file_temp |-> ft, res |-> Err("Sqlite")]
        ELSE IF fault = "step" THEN [file_temp |-> ft, res |-> Ok(<<>>)]
        ELSE [file_temp |-> SqlInsert(ft, key, value), res |-> Ok(<<>>)]

\* key_del whose DELETE has no WHERE clause
key_del_all(ft, key, fault) ==
    LET found == key_get(ft, key, GetFault(fault))
    IN  IF ~found.ok THEN [file_temp |-> ft, res |-> found]
        ELSE IF found.val = <<>> THEN [file_temp |-> ft, res |-> Err("KeyNonExist")]
        ELSE [file_temp |-> Serialize(<<>>), res |-> Ok(<<>>)]

\* key_del that takes a missing key for a deletion done
key_del_ignores_missing(ft, key, fault) ==
    IF ~HasTable(ft) THEN [file_temp |-> ft, res |-> Err("Sqlite")]
    ELSE [file_temp |-> SqlDelete(ft, key), res |-> Ok(<<>>)]

\* Vault::key_del(key)
key_del(ft, key, fault) ==
    LET found == key_get(ft, key, GetFault(fault))
    IN  IF ~found.ok THEN [file_temp |-> ft, res |-> found]
        ELSE IF found.val = <<>> THEN [file_temp |-> ft, res |-> Err("KeyNonExist")]
        ELSE IF fault = "prepare" THEN [file_temp |-> ft, res |-> Err("Sqlite")]
        ELSE IF fault = "step" THEN [file_temp |-> ft, res |-> Ok(<<>>)]
        ELSE [file_temp |-> SqlDelete(ft, key), res |-> Ok(<<>>)]

\* key_ls that reads one row (`if let` where the code has `while let`)
key_ls_first_row(ft, fault) ==
    IF ~HasTable(ft) THEN {Err("Sqlite")}
    ELSE {Ok(IF Len(SqlSelectKeys(ft)) = 0 THEN <<>>
             ELSE <<SqlSelectKeys(ft)[1]>>)}

\* Vault::key_ls(): a failing statement.next() ends the loop with the keys
\* read so far
key_ls(ft, fault) ==
    IF fault = "prepare" \/ ~HasTable(ft) THEN {Err("Sqlite")}
    ELSE IF fault = "step"
    THEN {Ok(SubSeq(SqlSelectKeys(ft), 1, n)) : n \in 0..Len(SqlSelectKeys(ft))}
    ELSE {Ok(SqlSelectKeys(ft))}


(***************************************************************************)
(* The state machine                                                       *)
(***************************************************************************)
\* what the callers pass to create: vaults are made under PASS, with a cost
\* inside or outside the range the key derivation takes
CreatePasswords == {PASS}
Costs == {4, 8, 12}

AllFaults ==
    {"none", "sqlite_open", "read", "write", "remove", "prepare", "step",
     "get_prepare", "get_step"}
IoFaults == {"none", "sqlite_open", "read", "write", "remove"}
CreateFaults == {"none", "sqlite_open", "read", "write"}
OpenFaults == {"none", "read", "write", "sqlite_open"}
CloseFaults(changed) ==
    IF changed THEN {"none", "read", "write", "remove"} ELSE {"none", "remove"}
QueryFaults == {"none", "prepare", "step"}
UpdateFaults == {"none", "get_prepare", "get_step", "prepare", "step"}

Did(op, caller, pass, key, value, changed, res) ==
    [op |-> op, caller |-> caller, pass |-> pass, key |-> key, value |-> value,
     changed |-> changed, res |-> res]

Init ==
    /\ file = Absent
    /\ file_temp = Absent
    /\ vault = [c \in Callers |-> NoVault]
    /\ last = Did("init", 0, <<>>, 0, 0, FALSE, Ok(<<>>))
    /\ crypt = CryptIdle

Create(pass, cost, fault) ==
    /\ fault \in CreateFaults
    /\ \E o \in create(file, pass, cost, fault) :
           /\ file' = o.file
           /\ last' = Did("create", 0, pass, 0, 0, FALSE, o.res)
    /\ UNCHANGED <<file_temp, vault, crypt>>

Open(c, pass, fault) ==
    /\ fault \in OpenFaults
    /\ ~vault[c].live
    /\ \E o \in open(file, file_temp, pass, fault) :
           /\ file_temp' = o.file_temp
           /\ vault' = [vault EXCEPT ![c] = o.vault]
           /\ last' = Did("open", c, pass, 0, 0, FALSE, o.res)
    /\ UNCHANGED <<file, crypt>>

Close(c, changed, fault) ==
    /\ fault \in CloseFaults(changed)
    /\ vault[c].live
    /\ \E o \in close(file, file_temp, vault[c], changed, fault) :
           /\ file' = o.file
           /\ file_temp' = o.file_temp
           /\ last' = Did("close", c, <<>>, 0, 0, changed, o.res)
    /\ vault' = [vault EXCEPT ![c] = NoVault]
    /\ UNCHANGED crypt

KeyNew(c, key, value, fault) ==
    /\ fault \in UpdateFaults
    /\ vault[c].live
    /\ LET o == key_new(file_temp, key, value, fault)
       IN  /\ HasTable(o.file_temp) => Len(Rows(o.file_temp)) <= MaxRows
           /\ file_temp' = o.file_temp
           /\ last' = Did("key_new", c, <<>>, key, value, FALSE, o.res)
    /\ UNCHANGED <<file, vault, crypt>>

KeyGet(c, key, fault) ==
    /\ fault \in QueryFaults
    /\ vault[c].live
    /\ last' = Did("key_get", c, <<>>, key, 0, FALSE, key_get(file_temp, key, fault))
    /\ UNCHANGED <<file, file_temp, vault, crypt>>

\* key_del whose error ends the session
KeyDelEndsSessionOnError(c, key, fault) ==
    /\ fault \in UpdateFaults
    /\ vault[c].live
    /\ LET o == key_del(file_temp, key, fault)
       IN  /\ file_temp' = o.file_temp
           /\ last' = Did("key_del", c, <<>>, key, 0, FALSE, o.res)
           /\ vault' = IF o.res.ok THEN vault ELSE [vault EXCEPT ![c] = NoVault]
    /\ UNCHANGED <<file, crypt>>

KeyDel(c, key, fault) ==
    /\ fault \in UpdateFaults
    /\ vault[c].live
    /\ LET o == key_del(file_temp, key, fault)
       IN  /\ file_temp' = o.file_temp
           /\ last' = Did("key_del", c, <<>>, key, 0, FALSE, o.res)
    /\ UNCHANGED <<file, vault, crypt>>

KeyLs(c, fault) ==
    /\ fault \in QueryFaults
    /\ vault[c].live
    /\ \E res \in key_ls(file_temp, fault) :
           last' = Did("key_ls", c, <<>>, 0, 0, FALSE, res)
    /\ UNCHANGED <<file, file_temp, vault, crypt>>

\* the caller lets its Vault go out of scope without close (an early return
\* by `?` between open and close): the connection is dropped, the files stay
Drop(c) ==
    /\ vault[c].live
    /\ vault' = [vault EXCEPT ![c] = NoVault]
    /\ last' = Did("drop", c, <<>>, 0, 0, FALSE, Ok(<<>>))
    /\ UNCHANGED <<file, file_temp, crypt>>

NextOf(C, F) ==
    \/ \E pass \in CreatePasswords, cost \in Costs, fault \in F :
           Create(pass, cost, fault)
    \/ \E c \in C, pass \in Passwords, fault \in F : Open(c, pass, fault)
    \/ \E c \in C, changed \in BOOLEAN, fault \in F : Close(c, changed, fault)
    \/ \E c \in C, key \in Keys, value \in Values, fault \in F :
           KeyNew(c, key, value, fault)
    \/ \E c \in C, key \in Keys, fault \in F : KeyGet(c, key, fault)
    \/ \E c \in C, key \in Keys, fault \in F : KeyDel(c, key, fault)
    \/ \E c \in C, fault \in F : KeyLs(c, fault)
    \/ \E c \in C : Drop(c)

\* one caller, no failing step
Next == NextOf({1}, {"none"})
Spec == Init /\ [][Next]_vars

\* one caller, a file-system or sqlite::open step may fail
NextIO == NextOf({1}, IoFaults)
SpecIO == Init /\ [][NextIO]_vars

\* one caller, a statement of the record store may fail to prepare or to step
DbFaults == {"none", "prepare", "step"}
NextDb == NextOf({1}, DbFaults)
SpecDb == Init /\ [][NextDb]_vars

\* two callers on the same vault file, no failing step: one vault, made with
\* one cost, both callers holding its password, one key and one value
TwoCost == CHOOSE cost \in Costs : cost \in MinCost..MaxCost
TwoKey == CHOOSE key \in Keys : TRUE
TwoValue == CHOOSE value \in Values : TRUE

NextTwo ==
    \/ Create(PASS, TwoCost, "none")
    \/ \E c \in Callers : Open(c, PASS, "none")
    \/ \E c \in Callers, changed \in BOOLEAN : Close(c, changed, "none")
    \/ \E c \in Callers : KeyNew(c, TwoKey, TwoValue, "none")
    \/ \E c \in Callers : KeyGet(c, TwoKey, "none")
    \/ \E c \in Callers : KeyDel(c, TwoKey, "none")
    \/ \E c \in Callers : KeyLs(c, "none")
SpecTwo == Init /\ [][NextTwo]_vars

\* the codec alone
InitCrypt ==
    /\ file = Absent
    /\ file_temp = Absent
    /\ vault = [c \in Callers |-> NoVault]
    /\ last = Did("init", 0, <<>>, 0, 0, FALSE, Ok(<<>>))
    /\ crypt \in {[CryptIdle EXCEPT !.pc = "start", !.plaintext = p, !.pass = w]
                     : p \in Plaintexts, w \in Passwords}

NextCrypt == CryptEncrypt \/ CryptDecrypt
SpecCrypt == InitCrypt /\ [][NextCrypt]_vars

\* the codec alone, two encryptions and a decryption of what became of one
InitSeal ==
    /\ file = Absent
    /\ file_temp = Absent
    /\ vault = [c \in Callers |-> NoVault]
    /\ last = Did("init", 0, <<>>, 0, 0, FALSE, Ok(<<>>))
    /\ crypt \in {[SealIdle EXCEPT !.plaintext = p, !.pass = w]
                     : p \in Plaintexts, w \in Passwords}

NextSeal ==
    CryptSealTwice \/ CryptPresent \/ CryptDamage \/ CryptTruncate \/ CryptOpen
SpecSeal == InitSeal /\ [][NextSeal]_vars

(***************************************************************************)
(* main.rs: the commands of the CLI on the active vault.  A command runs   *)
(* from its first line to its return; each gives the files it leaves and   *)
(* its result.  A word of the command line is a string, "" for an argument *)
(* that was not given; cfg::get_active_vault returns the one path of the   *)
(* model.                                                                  *)
(***************************************************************************)
RESERVED == {"help", "init", "use", "which", "mk", "rm", "ls"}

\* the words main matches before it takes the word for a key
Commands == {"help", "init", "use", "which", "mk", "rm", "ls"}

\* the byte a key name is stored as: "k" and "l" are the keys of Keys
KeyOf ==
    [help |-> 1, init |-> 2, use |-> 3, which |-> 4, mk |-> 5, rm |-> 6,
     ls |-> 7, k |-> 107, l |-> 108]

Words == DOMAIN KeyOf
Args == Words \cup {""}

Left(f, ft, res) == [file |-> f, file_temp |-> ft, res |-> res]

\* key_mk without the test of RESERVED
key_mk_unchecked(f, ft, param, pass, new_pass) ==
    IF param = "" THEN {Left(f, ft, Err("NoParam"))}
    ELSE UNION {
        IF ~o.res.ok THEN {Left(f, o.file_temp, o.res)}
        ELSE LET made == key_new(o.file_temp, KeyOf[param], new_pass, "none")
             IN  IF ~made.res.ok THEN {Left(f, made.file_temp, made.res)}
                 ELSE close(f, made.file_temp, o.vault, TRUE, "none")
        : o \in open(f, ft, pass, "none")}

\* key_mk(param): `?` after Vault::open returns with the Vault dropped
key_mk(f, ft, param, pass, new_pass) ==
    IF param = "" THEN {Left(f, ft, Err("NoParam"))}
    ELSE IF param \in RESERVED THEN {Left(f, ft, Err("KeyReserved"))}
    ELSE UNION {
        IF ~o.res.ok THEN {Left(f, o.file_temp, o.res)}
        ELSE LET made == key_new(o.file_temp, KeyOf[param], new_pass, "none")
             IN  IF ~made.res.ok THEN {Left(f, made.file_temp, made.res)}
                 ELSE close(f, made.file_temp, o.vault, TRUE, "none")
        : o \in open(f, ft, pass, "none")}

\* key_rm(param)
key_rm(f, ft, param, pass) ==
    IF param = "" THEN {Left(f, ft, Err("NoParam"))}
    ELSE UNION {
        IF ~o.res.ok THEN {Left(f, o.file_temp, o.res)}
        ELSE LET gone == key_del(o.file_temp, KeyOf[param], "none")
             IN  IF ~gone.res.ok THEN {Left(f, gone.file_temp, gone.res)}
                 ELSE close(f, gone.file_temp, o.vault, TRUE, "none")
        : o \in open(f, ft, pass, "none")}

\* key_get(key) of main.rs; the result carries what was found, which the
\* command puts into the clipboard or reports as not found
cmd_key_get(f, ft, key, pass) ==
    UNION {
        IF ~o.res.ok THEN {Left(f, o.file_temp, o.res)}
        ELSE LET found == key_get(o.file_temp, KeyOf[key], "none")
             IN  IF ~found.ok THEN {Left(f, o.file_temp, found)}
                 ELSE {IF c.res.ok THEN Left(c.file, c.file_temp, found) ELSE c
                          : c \in close(f, o.file_temp, o.vault, FALSE, "none")}
        : o \in open(f, ft, pass, "none")}

\* key_ls() of main.rs; the result carries the keys it prints
cmd_key_ls(f, ft, pass) ==
    UNION {
        IF ~o.res.ok THEN {Left(f, o.file_temp, o.res)}
        ELSE UNION {
            IF ~keys.ok THEN {Left(f, o.file_temp, keys)}
            ELSE {IF c.res.ok THEN Left(c.file, c.file_temp, keys) ELSE c
                     : c \in close(f, o.file_temp, o.vault, FALSE, "none")}
            : keys \in key_ls(o.file_temp, "none")}
        : o \in open(f, ft, pass, "none")}

\* vault_init(param): the cost is one get_cost lets through
vault_init(f, ft, param, pass, cost) ==
    IF param = "" THEN {Left(f, ft, Err("NoParam"))}
    ELSE {Left(o.file, ft, o.res) : o \in create(f, pass, cost, "none")}

\* all(param): the word is not a command, it is the key to get
all(f, ft, param, pass) == cmd_key_get(f, ft, param, pass)

\* main: args[1] is the action ("help" when absent), args[2] the parameter
main(f, ft, arg1, param, pass, new_pass, cost) ==
    LET action == IF arg1 = "" THEN "help" ELSE arg1
    IN  CASE action = "help" -> {Left(f, ft, Ok(<<>>))}
          [] action = "init" -> vault_init(f, ft, param, pass, cost)
          [] action = "use" ->
                 {Left(f, ft, IF param = "" THEN Err("NoParam") ELSE Ok(<<>>))}
          [] action = "which" -> {Left(f, ft, Ok(<<>>))}
          [] action = "mk" -> key_mk(f, ft, param, pass, new_pass)
          [] action = "rm" -> key_rm(f, ft, param, pass)
          [] action = "ls" -> cmd_key_ls(f, ft, pass)
          [] OTHER -> all(f, ft, action, pass)

Ran(action, param, res) ==
    [op |-> "main", caller |-> 0, action |-> action, param |-> param, res |-> res]

Main(arg1, param, pass, new_pass, cost) ==
    /\ \E o \in main(file, file_temp, arg1, param, pass, new_pass, cost) :
           /\ file' = o.file
           /\ file_temp' = o.file_temp
           /\ last' = Ran(arg1, param, o.res)
    /\ UNCHANGED <<vault, crypt>>

\* the words that may follow an action: main reads args[2] for these four
ParamsOf(arg1) ==
    IF arg1 \in {"init", "use", "mk", "rm"} THEN Args ELSE {""}

\* the commands of the CLI, one after the other; init makes the vault under
\* a password of CreatePasswords, the other commands are given any password
NextCli ==
    \E arg1 \in Args :
    \E param \in ParamsOf(arg1),
       pass \in IF arg1 = "init" THEN CreatePasswords ELSE Passwords :
        Main(arg1, param, pass, TwoValue, TwoCost)
SpecCli == Init /\ [][NextCli]_vars


(***************************************************************************)
(* Properties                                                              *)
(***************************************************************************)
KeyOps == {"key_new", "key_get", "key_del", "key_ls"}

\* the record store sealed in the vault file, as `pass` opens it
Sealed(f, pass) == decrypt(f, pass).val.value

\* pass is not the password the vault file is sealed with
WrongPassword(pass) ==
    \E w \in Passwords \ {pass} : file # Absent /\ decrypt(file, w).ok

\* C1: decrypting the text aes256_encrypt returned for plaintext P under
\* password W, with the same W, succeeds and returns exactly P.
C1_RoundTrip ==
    /\ crypt.pc \in {"encrypted", "decrypted"} => crypt.enc.ok
    /\ crypt.pc = "decrypted" /\ crypt.dpass = crypt.pass =>
           crypt.dec.ok /\ crypt.dec.val = crypt.plaintext

C1_Witness ==
    /\ crypt.pc = "decrypted"
    /\ crypt.dpass = crypt.pass
    /\ Len(crypt.plaintext) > 0
    /\ crypt.dec = Ok(crypt.plaintext)

C3_OpenRefusesWorkingCopy ==
    [][\A c \in Callers, pass \in Passwords, fault \in AllFaults :
          /\ last'.op = "open" /\ last'.caller = c /\ last'.pass = pass
          /\ file_temp # Absent
          /\ Open(c, pass, fault)
          => /\ last'.res = Err("PathTaken")
             /\ ~vault'[c].live
             /\ file_temp' = file_temp
             /\ file' = file]_vars

\* C4: create, called while a file exists at path, fails with PathTaken and
\* leaves the file's bytes as they were.
C4_CreateNeverOverwrites ==
    [][\A pass \in CreatePasswords, cost \in Costs, fault \in AllFaults :
          /\ last'.op = "create"
          /\ file # Absent
          /\ Create(pass, cost, fault)
          => /\ last'.res = Err("PathTaken")
             /\ file' = file]_vars

\* C5: no record operation of a session changes the vault file, and after
\* close(false) the vault file holds the bytes it held when the session opened.
C5_CloseFalseKeepsFile ==
    [][\A c \in Callers :
          /\ vault[c].live /\ last'.op \in KeyOps /\ last'.caller = c =>
                 file' = file /\ file' = vault[c].before
          /\ ( /\ last'.op = "close" /\ last'.caller = c /\ ~last'.changed
               /\ \E fault \in AllFaults : Close(c, FALSE, fault) )
             => file' = vault[c].before]_vars

C5_Witness ==
    /\ last.op = "close"
    /\ ~last.changed
    /\ last.res.ok
    /\ Sealed(file, PASS) = Serialize(<<>>)

\* C6: once close(changed) has returned Ok, for either value of changed, no
\* file exists at path_temp.
C6_CloseRemovesTemp ==
    last.op = "close" /\ last.res.ok => file_temp = Absent

C6_Witness ==
    /\ last.op = "close"
    /\ ~last.changed
    /\ last.res.ok
    /\ file_temp = Absent

\* C7: close(true) right after a successful key_new(k, v), on a working copy
\* that differs from the store the session opened, leaves a vault file that
\* differs from the one opened and holds (k, v) under the session's password;
\* key_get(k) on a session just opened returns the value the vault file
\* holds for k.
C7_MutationPersists ==
    [][\A c \in Callers :
          /\ ( /\ last.op = "key_new" /\ last.caller = c /\ last.res.ok
               /\ last'.op = "close" /\ last'.caller = c /\ last'.res.ok
               /\ file_temp # Sealed(vault[c].before, vault[c].pass)
               /\ \E fault \in AllFaults : Close(c, TRUE, fault) )
             => /\ file' # vault[c].before
                /\ decrypt(file', vault[c].pass).ok
                /\ SqlSelectValue(Sealed(file', vault[c].pass), last.key)
                       = <<last.value>>
          /\ ( /\ last.op = "open" /\ last.caller = c /\ last.res.ok
               /\ last'.op = "key_get" /\ last'.caller = c )
             => last'.res =
                    Ok(SqlSelectValue(Sealed(file, vault[c].pass), last'.key))]_vars

\* a session opened on a vault file that holds a record reads it back
C7_Witness ==
    /\ last.op = "key_get"
    /\ vault[last.caller].live
    /\ last.res.ok
    /\ last.res.val # <<>>
    /\ vault[last.caller].before = file
    /\ SqlSelectValue(Sealed(file, vault[last.caller].pass), last.key) = last.res.val

\* C8: a close(true) that fails leaves path_temp in place with its content
\* and leaves at path either the old bytes or a complete new envelope.
C8_FailedCloseKeepsFiles ==
    [][\A c \in Callers, fault \in AllFaults :
          /\ last'.op = "close" /\ last'.caller = c /\ ~last'.res.ok
          /\ Close(c, TRUE, fault)
          => /\ file_temp' # Absent
             /\ file_temp' = file_temp
             /\ \/ file' = file
                \/ /\ decrypt(file', vault[c].pass).ok
                   /\ Sealed(file', vault[c].pass) = file_temp]_vars

\* C9: an open that returns an error leaves no file at path_temp (stated for
\* an open that found none there).
C9_FailedOpenLeavesNoTemp ==
    [][\A c \in Callers, pass \in Passwords, fault \in AllFaults :
          /\ last'.op = "open" /\ last'.caller = c /\ last'.pass = pass
          /\ ~last'.res.ok
          /\ file_temp = Absent
          /\ Open(c, pass, fault)
          => file_temp' = Absent]_vars

\* C10: open with a password other than the one the vault file is sealed
\* with returns the AES256Decrypt ("decrypt failed") error, returns no Vault
\* and leaves the vault file and path_temp as they were.
C10_WrongPasswordOpen ==
    [][\A c \in Callers, pass \in Passwords, fault \in AllFaults :
          /\ last'.op = "open" /\ last'.caller = c /\ last'.pass = pass
          /\ WrongPassword(pass)
          /\ Open(c, pass, fault)
          => /\ last'.res = Err("AES256Decrypt")
             /\ ~vault'[c].live
             /\ file' = file
             /\ file_temp' = file_temp]_vars

C10_Witness ==
    /\ last.op = "open"
    /\ last.pass = BadPass
    /\ last.res = Err("AES256Decrypt")
    /\ file # Absent
    /\ decrypt(file, PASS).ok
    /\ \A c \in Callers : ~vault[c].live

\* the keys of the rows of the record store, as a set
StoredKeys(bytes) == {Rows(bytes)[i][1] : i \in 1..Len(Rows(bytes))}

\* C11: key_new(k, b) on a session whose store holds k with value a fails
\* with KeyDuplicate and leaves the store as it was, k still holding a.
C11_DuplicateKey ==
    [][\A c \in Callers :
          /\ last'.op = "key_new" /\ last'.caller = c
          /\ vault[c].live
          /\ HasTable(file_temp)
          /\ SqlSelectValue(file_temp, last'.key) # <<>>
          => /\ last'.res = Err("KeyDuplicate")
             /\ file_temp' = file_temp
             /\ SqlSelectValue(file_temp', last'.key)
                    = SqlSelectValue(file_temp, last'.key)]_vars

C11_Witness ==
    /\ last.op = "key_new"
    /\ last.res = Err("KeyDuplicate")
    /\ vault[last.caller].live
    /\ SqlSelectValue(file_temp, last.key) # <<>>
    /\ SqlSelectValue(file_temp, last.key) # <<last.value>>

\* C12: key_del(k) on a session whose store holds no record with key k fails
\* with KeyNonExist and leaves the store as it was.
C12_MissingKeyDeletion ==
    [][\A c \in Callers :
          /\ last'.op = "key_del" /\ last'.caller = c
          /\ vault[c].live
          /\ HasTable(file_temp)
          /\ SqlSelectValue(file_temp, last'.key) = <<>>
          => /\ last'.res = Err("KeyNonExist")
             /\ file_temp' = file_temp]_vars

C12_Witness ==
    /\ last.op = "key_del"
    /\ last.res = Err("KeyNonExist")
    /\ vault[last.caller].live
    /\ Len(Rows(file_temp)) > 0
    /\ last.key \notin StoredKeys(file_temp)

\* C13: while a session is open (one caller, the vault made by create), the
\* record store holds at most one record for each key.
C13_KeyUniqueness ==
    \A c \in Callers :
        vault[c].live /\ HasTable(file_temp) =>
            \A i, j \in 1..Len(Rows(file_temp)) :
                Rows(file_temp)[i][1] = Rows(file_temp)[j][1] => i = j

\* a live session whose store holds two records, inserted after a deletion
C13_Witness ==
    /\ vault[1].live
    /\ HasTable(file_temp)
    /\ Len(Rows(file_temp)) = 2
    /\ last.op = "key_new"
    /\ last.res.ok

\* C14: key_ls returns the keys of the store, each once, whatever the order:
\* every key inserted is listed, and a store without records gives the empty
\* list.
C14_Listing ==
    [][\A c \in Callers :
          /\ last'.op = "key_ls" /\ last'.caller = c
          /\ vault[c].live
          /\ HasTable(file_temp)
          => /\ last'.res.ok
             /\ {last'.res.val[i] : i \in 1..Len(last'.res.val)}
                    = StoredKeys(file_temp)
             /\ Len(last'.res.val) = Cardinality(StoredKeys(file_temp))
             /\ Len(Rows(file_temp)) = 0 => last'.res.val = <<>>
             /\ last.op = "key_new" /\ last.res.ok =>
                    \E i \in 1..Len(last'.res.val) : last'.res.val[i] = last.key]_vars

\* key_ls after two distinct keys were inserted lists the two
C14_Witness ==
    /\ last.op = "key_ls"
    /\ last.res.ok
    /\ Len(last.res.val) = 2
    /\ {last.res.val[i] : i \in 1..2} = Keys

\* C15: key_get(k) returns None exactly when the lookup succeeded and the
\* store holds no record with key k; a lookup that failed returns an error.
C15_KeyGetAbsentOrError ==
    [][\A c \in Callers, key \in Keys, fault \in AllFaults :
          /\ last'.op = "key_get" /\ last'.caller = c /\ last'.key = key
          /\ vault[c].live
          /\ HasTable(file_temp)
          /\ KeyGet(c, key, fault)
          => /\ fault # "none" => ~last'.res.ok
             /\ last'.res = Ok(<<>>) <=>
                    fault = "none" /\ key \notin StoredKeys(file_temp)]_vars

C17_EnvelopeUniqueness ==
    crypt.pc = "sealed" =>
        /\ crypt.first.out.ok /\ crypt.second.out.ok
        /\ crypt.first.out.val # crypt.second.out.val
        /\ crypt.first.salt # crypt.second.salt
        /\ crypt.first.nonce # crypt.second.nonce
        /\ aes256_decrypt(crypt.first.out.val, crypt.pass) = Ok(crypt.plaintext)
        /\ aes256_decrypt(crypt.second.out.val, crypt.pass) = Ok(crypt.plaintext)

\* C18: aes256_decrypt of an input shorter than the 29 bytes of an envelope
\* header, the empty input included, returns the MalformedEnvelope error: it
\* does not panic and returns no other error.
C18_ShortEnvelope ==
    crypt.pc = "opened" /\ Len(crypt.text) < EnvelopeHeaderLen =>
        crypt.dec = Err("MalformedEnvelope")

\* C19: what aes256_encrypt returns is the cost byte, the 16 bytes of the
\* salt, the 12 bytes of the nonce and the ciphertext, in this order and
\* with nothing else, and aes256_decrypt opens exactly these bytes.
C19_EnvelopeLayout ==
    crypt.pc = "sealed" =>
        /\ crypt.first.out.ok
        /\ LET envelope ==
                   <<BcryptCost>> \o crypt.first.salt \o crypt.first.nonce
                   \o AeadEncrypt(get_aes256gcmsiv(crypt.pass).val,
                                  crypt.first.nonce, crypt.plaintext)
           IN  /\ crypt.first.out.val = envelope
               /\ aes256_decrypt(envelope, crypt.pass) = Ok(crypt.plaintext)

\* C20: aes256_decrypt of an input as long as an envelope returns one and
\* the same error, AES256Decrypt, when the password is not the one that
\* sealed it and when the input is a damaged copy of what was sealed.
C20_OneAuthenticationError ==
    /\ crypt.pc = "opened"
    /\ Len(crypt.text) = Len(crypt.first.out.val)
    /\ \/ crypt.dpass # crypt.pass
       \/ crypt.text \notin {crypt.first.out.val, crypt.second.out.val}
    => crypt.dec = Err("AES256Decrypt")

\* C21: with two callers on one vault path, at most one session is live at
\* a time, and no open or close of one caller writes, replaces or deletes
\* the working copy while the other caller's session is live.
C21_ExclusiveWorkingCopy ==
    [][/\ ~(vault'[1].live /\ vault'[2].live)
       /\ \A c \in Callers, d \in Callers :
             /\ c # d
             /\ vault[c].live
             /\ last'.caller = d /\ last'.op \in {"open", "close"}
             => file_temp' = file_temp]_vars

\* C22: no record operation of an open session, succeeding or failing,
\* changes the vault file or ends the session; key_get and key_ls leave the
\* record store as it was, and so does a key_new or key_del that fails.
C22_RecordOpsFrame ==
    [][\A c \in Callers :
          /\ last'.op \in KeyOps /\ last'.caller = c
          /\ vault[c].live
          => /\ file' = file
             /\ vault' = vault
             /\ vault'[c].live
             /\ last'.op \in {"key_get", "key_ls"} => file_temp' = file_temp
             /\ last'.op \in {"key_new", "key_del"} /\ ~last'.res.ok =>
                    file_temp' = file_temp]_vars

\* a key_del that failed on a live session, the store still holding a record
C22_Witness ==
    /\ last.op = "key_del"
    /\ ~last.res.ok
    /\ vault[last.caller].live
    /\ HasTable(file_temp)
    /\ Len(Rows(file_temp)) > 0
    /\ file = vault[last.caller].before

\* C23: key_new(k, v) that succeeds where k was absent makes key_get(k)
\* return v and changes the value of no other key; key_get returns the value
\* the store holds; a value stays until a key_del of its key.
C23_KeyNewVisible ==
    [][\A c \in Callers :
          /\ last'.op \in KeyOps /\ last'.caller = c
          /\ vault[c].live
          /\ HasTable(file_temp)
          => /\ ( /\ last'.op = "key_new" /\ last'.res.ok
                  /\ SqlSelectValue(file_temp, last'.key) = <<>> )
                => /\ key_get(file_temp', last'.key, "none") = Ok(<<last'.value>>)
                   /\ \A k \in Keys : k # last'.key =>
                          SqlSelectValue(file_temp', k) = SqlSelectValue(file_temp, k)
             /\ last'.op = "key_get" =>
                    last'.res = Ok(SqlSelectValue(file_temp, last'.key))
             /\ \A k \in Keys :
                    /\ SqlSelectValue(file_temp, k) # <<>>
                    /\ ~(last'.op = "key_del" /\ last'.key = k)
                    => SqlSelectValue(file_temp', k) = SqlSelectValue(file_temp, k)]_vars

\* key_get returns a value inserted in this session, beside another record
C23_Witness ==
    /\ last.op = "key_get"
    /\ last.res.ok
    /\ last.res.val # <<>>
    /\ vault[last.caller].live
    /\ Len(Rows(file_temp)) = 2
    /\ decrypt(file, PASS).ok
    /\ SqlSelectValue(Sealed(file, PASS), last.key) = <<>>

\* C24: key_del(k) where k is present succeeds; afterwards key_get(k) returns
\* None, key_ls does not list k, every other record is as it was, and a
\* key_new(k, v) that follows succeeds.
C24_KeyDelRemovesOne ==
    [][\A c \in Callers :
          /\ last'.caller = c
          /\ vault[c].live
          /\ HasTable(file_temp)
          => /\ ( /\ last'.op = "key_del"
                  /\ SqlSelectValue(file_temp, last'.key) # <<>> )
                => /\ last'.res.ok
                   /\ key_get(file_temp', last'.key, "none") = Ok(<<>>)
                   /\ \A res \in key_ls(file_temp', "none") :
                          /\ res.ok
                          /\ \A i \in 1..Len(res.val) : res.val[i] # last'.key
                   /\ \A k \in Keys : k # last'.key =>
                          SqlSelectValue(file_temp', k) = SqlSelectValue(file_temp, k)
                   /\ Len(Rows(file_temp')) = Len(Rows(file_temp)) - 1
             /\ ( /\ last.op = "key_del" /\ last.res.ok /\ last.caller = c
                  /\ last'.op = "key_new" /\ last'.key = last.key )
                => /\ last'.res.ok
                   /\ SqlSelectValue(file_temp', last'.key) = <<last'.value>>]_vars

\* a key_del that succeeded and left the other record in the store
C24_Witness ==
    /\ last.op = "key_del"
    /\ last.res.ok
    /\ vault[last.caller].live
    /\ Len(Rows(file_temp)) = 1
    /\ last.key \notin StoredKeys(file_temp)

\* the salt and the nonce an envelope carries
SaltOf(envelope) == SubSeq(envelope, 2, 1 + SaltLen)
NonceOf(envelope) == SubSeq(envelope, 2 + SaltLen, EnvelopeHeaderLen)

\* C25: a close(true) that succeeds leaves at path an envelope that differs
\* from the one the session opened, with another salt and another nonce,
\* whatever the working copy holds, and that opens with the same password.
C25_FreshEnvelope ==
    [][\A c \in Callers :
          /\ last'.op = "close" /\ last'.caller = c
          /\ last'.changed /\ last'.res.ok
          /\ vault[c].live
          => /\ file' # vault[c].before
             /\ SaltOf(file') # SaltOf(vault[c].before)
             /\ NonceOf(file') # NonceOf(vault[c].before)
             /\ decrypt(file', vault[c].pass).ok]_vars

\* C26: the store a successful open shows is the one sealed in the vault
\* file: empty after create, what the working copy held at the last
\* close(true) after that; close(false), the record operations and a session
\* dropped leave the vault file, and so what the next open shows, as it was.
C26_SealedTracksCommitted ==
    [][/\ last'.op = "create" /\ last'.res.ok =>
             LET made == decrypt(file', last'.pass)
             IN  made.ok /\ made.val.value = Serialize(<<>>)
       /\ \A c \in Callers :
             last'.op = "open" /\ last'.caller = c /\ last'.res.ok =>
                 /\ file' = file
                 /\ file_temp' = Sealed(file, last'.pass)
       /\ \A c \in Callers :
             /\ last'.op = "close" /\ last'.caller = c /\ last'.res.ok
             /\ vault[c].live
             => IF last'.changed
                THEN LET sealed == decrypt(file', vault[c].pass)
                     IN  sealed.ok /\ sealed.val.value = file_temp
                ELSE file' = file
       /\ last'.op \in KeyOps \cup {"drop"} => file' = file
       /\ ~last'.res.ok /\ file' # file => ~decrypt(file, PASS).ok]_vars

\* an open that shows a record a session before it sealed
C26_Witness ==
    /\ last.op = "open"
    /\ last.res.ok
    /\ vault[last.caller].live
    /\ HasTable(file_temp)
    /\ Len(Rows(file_temp)) > 0
    /\ file_temp = Sealed(file, PASS)

\* C27: after a command mk, rm, ls or <key> has returned, with success or
\* with an error, no file exists at path_temp.
C27_CommandsLeaveNoTemp ==
    /\ last.op = "main"
    /\ last.action \in {"mk", "rm", "ls"} \cup (Words \ Commands)
    => file_temp = Absent

\* C29: mk with a key of RESERVED returns KeyReserved and touches neither the
\* vault file nor path_temp; RESERVED is the set of words main matches as
\* commands, so no key mk stores is a command word and the word of a stored
\* key, given as the action, gets the key.
C29_ReservedNames ==
    [][last'.op = "main" =>
          /\ last'.action = "mk" =>
                 /\ RESERVED = Commands
                 /\ last'.param \in RESERVED =>
                        /\ last'.res = Err("KeyReserved")
                        /\ file' = file
                        /\ file_temp' = file_temp
                 /\ last'.res.ok =>
                        LET sealed == decrypt(file', PASS)
                        IN  /\ last'.param \notin Commands
                            /\ sealed.ok
                            /\ KeyOf[last'.param] \in StoredKeys(sealed.val.value)
                            /\ \A key \in StoredKeys(sealed.val.value) :
                                   \E word \in Words \ Commands : KeyOf[word] = key
          /\ last'.action \in Words \ Commands /\ last'.res.ok =>
                 LET sealed == decrypt(file, PASS)
                 IN  /\ sealed.ok
                     /\ last'.res = Ok(SqlSelectValue(sealed.val.value,
                                                      KeyOf[last'.action]))]_vars

\* mk of a reserved word on a vault that holds a key
C29_Witness ==
    /\ last.op = "main"
    /\ last.action = "mk"
    /\ last.param \in RESERVED
    /\ last.res = Err("KeyReserved")
    /\ decrypt(file, PASS).ok
    /\ Len(Rows(Sealed(file, PASS))) > 0

\* C28: when create returns, path holds a complete envelope (success) or
\* what it held before the call (error), and never the unencrypted store.
C28_FailedCreateLeavesNoPlaintext ==
    [][last'.op = "create" =>
          /\ IF last'.res.ok THEN decrypt(file', last'.pass).ok
             ELSE file' = file
          /\ ~HasTable(file')]_vars

====
